---------------------------- MODULE Spec2Model ----------------------------
(* A model of music.py (Keyboard Music Lab): the pitch mapper, the waveform  *)
(* generators, the ADSR envelope, the instrument synthesizer, the render     *)
(* cache (get_sound) and the event loop of main().                           *)
(*                                                                           *)
(* Number representations                                                    *)
(*   - signal values (float32 in the source) are fixed point, in thousandths *)
(*     (One = 1.0);                                                          *)
(*   - times in seconds are integers in microseconds;                        *)
(*   - angles (phase, radians in the source) are tenths of a degree,         *)
(*     unwrapped, so 2*pi is 3600;                                           *)
(*   - frequencies are in tenths of a hertz;                                 *)
(*   - volume (a Python float, an IEEE double) is exact: the pair <<q, e>>   *)
(*     stands for the double q * fl(0.05) + e * 2^-57.                       *)
EXTENDS Integers, Sequences, FiniteSets, TLC

(***************************************************************************)
(* Settings (music.py 8-38)                                                *)
(***************************************************************************)
SAMPLE_RATE == 44100

One == 1000

None == "None"

\* (pygame_key, semitone_offset_from_C4, is_black, label)
KEYBOARD_MAP ==
    << <<"K_a", 0,  FALSE, "A">>,
       <<"K_w", 1,  TRUE,  "W">>,
       <<"K_s", 2,  FALSE, "S">>,
       <<"K_e", 3,  TRUE,  "E">>,
       <<"K_d", 4,  FALSE, "D">>,
       <<"K_f", 5,  FALSE, "F">>,
       <<"K_t", 6,  TRUE,  "T">>,
       <<"K_g", 7,  FALSE, "G">>,
       <<"K_y", 8,  TRUE,  "Y">>,
       <<"K_h", 9,  FALSE, "H">>,
       <<"K_u", 10, TRUE,  "U">>,
       <<"K_j", 11, FALSE, "J">>,
       <<"K_k", 12, FALSE, "K">> >>

\* C4_FREQ = 261.625565 Hz, in hundredths of a hertz.
C4_FREQ == 26163

(***************************************************************************)
(* Integer helpers                                                         *)
(***************************************************************************)
Max(a, b) == IF a >= b THEN a ELSE b

Min(a, b) == IF a <= b THEN a ELSE b

Abs(x) == IF x >= 0 THEN x ELSE -x

\* Division truncating toward zero (C and NumPy float-to-int conversion).
Trunc(x, d) == IF x >= 0 THEN x \div d ELSE -((-x) \div d)

\* np.sign
Sign(x) == IF x > 0 THEN One ELSE IF x < 0 THEN -One ELSE 0

(***************************************************************************)
(* Pitch mapper (music.py 40-42)                                           *)
(***************************************************************************)
\* 2 ** (k / 12) for k in 0..11, times 10000.
Pow2Twelfths == <<10000, 10595, 11225, 11892, 12599, 13348,
                  14142, 14983, 15874, 16818, 17818, 18877>>

\* C4_FREQ * (2 ** (total / 12)) in tenths of a hertz: total is split into
\* whole octaves (a power of two) and a remainder of 0..11 semitones.
semitone_to_freq(semitone_offset, octv) ==
    LET total == semitone_offset + octv * 12
        oct   == total \div 12
        rem   == total % 12
        base  == (C4_FREQ * Pow2Twelfths[rem + 1]) \div 10000
    IN  IF oct >= 0 THEN (base * (2 ^ oct)) \div 10
        ELSE (base \div (2 ^ (-oct))) \div 10

(***************************************************************************)
(* Envelope generator (music.py 47-72)                                     *)
(***************************************************************************)
\* int(t * SAMPLE_RATE) for a time t of whole microseconds. The IEEE product
\* of the double nearest 0.35 and 44100 is 15434.999999999998, one sample
\* short of the exact quotient; for every other time used in the source or
\* drawn below the double product truncates to the exact quotient.
SecToSamples(t) ==
    LET exact == (t \div 10000) * (SAMPLE_RATE \div 100)
                 + ((t % 10000) * (SAMPLE_RATE \div 100)) \div 10000
    IN  IF t = 350000 THEN exact - 1 ELSE exact

\* np.linspace(start, stop, num, endpoint)[k]
linspace(start, stop, num, endpoint, k) ==
    LET div == IF endpoint THEN num - 1 ELSE num
    IN  IF endpoint /\ num > 1 /\ k = num - 1 THEN stop
        ELSE IF div > 0 THEN start + Trunc((stop - start) * k, div)
        ELSE start

\* len(env[lo:hi]) for an array of n elements, 0 <= lo <= hi.
SliceLen(n, lo, hi) == Max(0, Min(hi, n) - Min(lo, n))

\* env[idx:idx+num] = <array of num values>: NumPy accepts it when the
\* slice holds num elements or the array holds one (broadcast), and raises
\* ValueError otherwise.
AssignFits(n, idx, num) == num = 1 \/ SliceLen(n, idx, idx + num) = num

\* s = max(0, n - (a + d + r)) for segments of a, d and r samples.
SustainSamples(n, a, d, r) == Max(0, n - (a + d + r))

\* Whether adsr_envelope raises, for an array of n and segments of a, d and
\* r samples: a slice assignment that does not fit raises ValueError, and
\* env[idx-1] raises IndexError when idx - 1 is past the end of the array.
\* idx is a after the attack, a + d after the decay and a + d + s after the
\* sustain (a segment of no samples is skipped and leaves idx as it is).
SegmentsRaise(n, a, d, r) ==
    \/ a > 0 /\ ~AssignFits(n, 0, a)
    \/ d > 0 /\ ~AssignFits(n, a, d)
    \/ r > 0 /\ a + d + SustainSamples(n, a, d, r) > n
    \/ r > 0 /\ ~AssignFits(n, a + d + SustainSamples(n, a, d, r), r)

adsr_raises(n, attack, decay, release) ==
    SegmentsRaise(n, SecToSamples(attack), SecToSamples(decay),
                  SecToSamples(release))

\* env[i] for i before the release segment: the attack ramp, the decay ramp,
\* then the sustain level.
BeforeRelease(a, d, sustain, i) ==
    IF i < a THEN linspace(0, One, a, FALSE, i)
    ELSE IF i < a + d THEN linspace(One, sustain, d, FALSE, i - a)
    ELSE sustain

\* env[i] of an adsr_envelope that does not raise: its slice assignments
\* write disjoint segments one after the other onto np.zeros(n), and the
\* release starts from the value written last.
Segments(n, a, d, sustain, r, i) ==
    IF i < a + d + SustainSamples(n, a, d, r)
    THEN BeforeRelease(a, d, sustain, i)
    ELSE IF i < a + d + SustainSamples(n, a, d, r) + r
    THEN linspace(IF a + d + SustainSamples(n, a, d, r) > 0
                  THEN BeforeRelease(a, d, sustain,
                           a + d + SustainSamples(n, a, d, r) - 1)
                  ELSE sustain,
                  0, r, TRUE, i - (a + d + SustainSamples(n, a, d, r)))
    ELSE 0

\* The array adsr_envelope returns when it does not raise, as a function on
\* 0..n-1.
adsr_envelope(n, attack, decay, sustain, release) ==
    [i \in 0..(n - 1) |->
        Segments(n, SecToSamples(attack), SecToSamples(decay), sustain,
                 SecToSamples(release), i)]

(***************************************************************************)
(* Waveform generators (music.py 74-77)                                    *)
(***************************************************************************)
\* np.sin of an angle of d degrees, 0 <= d <= 180, by Bhaskara's rational
\* approximation (exact at 0, 30, 90, 150 and 180 degrees, within 0.002
\* elsewhere, never above One).
SinHalfTurn(d) == (4 * d * (180 - d) * One) \div (40500 - d * (180 - d))

wave_sine(phase) ==
    LET d == (phase % 3600) \div 10
    IN  IF d <= 180 THEN SinHalfTurn(d) ELSE -SinHalfTurn(d - 180)

wave_square(phase) == Sign(wave_sine(phase))

\* 2.0 * (phase / (2*pi) - floor(0.5 + phase / (2*pi)))
wave_saw(phase) ==
    Trunc(2 * One * (phase - 3600 * ((phase + 1800) \div 3600)), 3600)

wave_triangle(phase) == 2 * Abs(wave_saw(phase)) - One

(***************************************************************************)
(* Instrument synthesizer (music.py 79-136)                                *)
(***************************************************************************)
\* The product of two fixed-point values.
Mul(x, y) == Trunc(x * y, One)

\* phase[i] = 2 * pi * freq * t[i], with t[i] = i / SAMPLE_RATE: a tenth of a
\* hertz turns 360 tenths of a degree per second.
Phase(freq, i) ==
    freq * 360 * (i \div SAMPLE_RATE)
    + (2 * freq * (i % SAMPLE_RATE)) \div ((2 * SAMPLE_RATE) \div 360)

\* m * phase for a partial multiplier m given in hundredths (2.71 is 271).
Partial(m, phase) == (phase \div 100) * m + ((phase % 100) * m) \div 100

\* phase * w for a fixed-point factor w.
Scaled(phase, w) == (phase \div One) * w + ((phase % One) * w) \div One

\* np.random.uniform(-0.15, 0.15, click_len)[i] of the draw numbered draw:
\* what the generator returns is not fixed by the program, so a call picks
\* one of a family of arrays with values in [-0.15, 0.15).
uniform(draw, i) == ((draw + 37 * i) % 300) - 150

\* A Piano-ish sample with the click added before the envelope is applied.
PianoMixEnveloped(partials, env, click) == Mul(partials + click, env)

\* The Piano-ish sample: the partials times the envelope, and then the click.
PianoMix(partials, env, click) == Mul(partials, env) + click

\* A synthesizer that does not clip.
ClipNothing(x) == x

\* np.clip(sig, -1.0, 1.0)
Clip(x) == Max(-One, Min(One, x))

\* float(volume) as the float32 multiplier of sig, in twentieths: the
\* residue e of the double is far below float32's resolution.
Float32(vol) == vol[1]

\* astype(np.int16) of a float holding x / den: truncation toward zero, and
\* two's-complement wrapping if the value is out of range.
AsInt16(x, den) == ((Trunc(x, den) + 32768) % 65536) - 32768

\* The attack, decay, sustain and release of each instrument's envelope.
EnvelopeSpec(instrument) ==
    CASE instrument = "Sine"      -> <<10000, 60000, 750, 180000>>
      [] instrument = "Square"    -> <<5000, 50000, 550, 120000>>
      [] instrument = "Triangle"  -> <<10000, 80000, 650, 150000>>
      [] instrument = "Saw"       -> <<10000, 100000, 500, 180000>>
      [] instrument = "Organ"     -> <<20000, 60000, 950, 220000>>
      [] instrument = "Bell"      -> <<2000, 200000, 120, 350000>>
      [] instrument = "Piano-ish" -> <<3000, 220000, 150, 350000>>
      [] instrument = "Chiptune"  -> <<2000, 40000, 600, 80000>>
      [] OTHER                    -> <<10000, 80000, 600, 150000>>

\* Whether synth_note raises: only adsr_envelope can.
synth_raises(duration, instrument) ==
    adsr_raises(SecToSamples(duration), EnvelopeSpec(instrument)[1],
                EnvelopeSpec(instrument)[2], EnvelopeSpec(instrument)[4])

\* sig as it stands before np.clip, a function on 0..n-1.
synth_sig(freq, duration, instrument, draw) ==
    LET n == SecToSamples(duration)
        e == EnvelopeSpec(instrument)
        env(i) == adsr_envelope(n, e[1], e[2], e[3], e[4])[i]
        phase(i) == Phase(freq, i)
        click_len == Min(SecToSamples(8000), n)
        click(i) == IF i < click_len
                    THEN Mul(uniform(draw, i),
                             linspace(One, 0, click_len, TRUE, i))
                    ELSE 0
        wobble(i) == One + Mul(3, wave_sine(Phase(60, i)))
        raw(i) ==
            CASE instrument = "Sine"     -> wave_sine(phase(i))
              [] instrument = "Square"   -> wave_square(phase(i))
              [] instrument = "Triangle" -> wave_triangle(phase(i))
              [] instrument = "Saw"      -> wave_saw(phase(i))
              [] instrument = "Organ"    ->
                    Mul(700, wave_sine(phase(i)))
                    + Mul(200, wave_sine(Partial(200, phase(i))))
                    + Mul(100, wave_sine(Partial(300, phase(i))))
              [] instrument = "Bell"     ->
                    Mul(700, wave_sine(phase(i)))
                    + Mul(350, wave_sine(Partial(271, phase(i))))
                    + Mul(200, wave_sine(Partial(518, phase(i))))
              [] instrument = "Piano-ish" ->
                    Mul(550, wave_sine(phase(i)))
                    + Mul(280, wave_sine(Partial(200, phase(i))))
                    + Mul(120, wave_sine(Partial(300, phase(i))))
                    + Mul(50, wave_sine(Partial(400, phase(i))))
              [] instrument = "Chiptune" ->
                    Sign(wave_sine(Scaled(phase(i), wobble(i))))
              [] OTHER                   -> wave_sine(phase(i))
    IN  [i \in 0..(n - 1) |->
            IF instrument = "Piano-ish"
            THEN PianoMix(raw(i), env(i), click(i))
            ELSE Mul(raw(i), env(i))]

\* sig * 32767 after np.clip and the volume, as a numerator over 20 * One.
synth_scaled(freq, duration, instrument, vol, draw) ==
    [i \in 0..(SecToSamples(duration) - 1) |->
        Clip(synth_sig(freq, duration, instrument, draw)[i])
        * Float32(vol) * 32767]

\* The array synth_note returns when it does not raise: (left, right) per
\* frame, a function on 0..n-1.
synth_note(freq, duration, instrument, vol, draw) ==
    [i \in 0..(SecToSamples(duration) - 1) |->
        LET mono == AsInt16(
                synth_scaled(freq, duration, instrument, vol, draw)[i],
                20 * One)
        IN  <<mono, mono>>]

(***************************************************************************)
(* Volume and octave steps (music.py 238-250, 272-284)                     *)
(*                                                                         *)
(* A double in [0.03125, 2) is a whole number of units of 2^-57, and       *)
(* fl(0.05) is 7205759403792794 units (26 modulo 64).  The pair <<q, e>>   *)
(* is the double of q * fl(0.05) + e units: 0.05 is <<1, 0>>, 0.25 is      *)
(* <<5, -2>>, 0.45 is <<9, -2>>, 0.5 is <<10, -4>> and 1.0 is <<20, -8>>.  *)
(***************************************************************************)
\* The spacing of the doubles around q * fl(0.05) + e, in units.
Ulp(q, e) ==
    IF q > 20 \/ (q = 20 /\ e >= -8) THEN 32
    ELSE IF q > 10 \/ (q = 10 /\ e >= -4) THEN 16
    ELSE IF q > 5 \/ (q = 5 /\ e >= -2) THEN 8
    ELSE IF q >= 3 THEN 4
    ELSE IF q = 2 THEN 2
    ELSE 1

\* IEEE round-to-nearest, ties to even, of the exact q * fl(0.05) + e.
RoundDouble(q, e) ==
    LET u    == Ulp(q, e)
        r    == (q * 26 + e) % u
        down == e - r
        up   == e + (u - r)
    IN  IF 2 * r < u THEN <<q, down>>
        ELSE IF 2 * r > u THEN <<q, up>>
        ELSE IF (q * 26 + down) % (2 * u) = 0 THEN <<q, down>>
        ELSE <<q, up>>

\* x < y for two doubles.
Less(x, y) == x[1] < y[1] \/ (x[1] = y[1] /\ x[2] < y[2])

\* max(0.05, volume - 0.05)
VolumeDown(vol) ==
    LET x == IF vol[1] = 1 THEN <<0, vol[2]>>
             ELSE RoundDouble(vol[1] - 1, vol[2])
    IN  IF Less(x, <<1, 0>>) THEN <<1, 0>> ELSE x

\* min(1.0, volume + 0.05)
VolumeUp(vol) ==
    LET x == RoundDouble(vol[1] + 1, vol[2])
    IN  IF Less(<<20, -8>>, x) THEN <<20, -8>> ELSE x

\* An octave-down step that does not clamp.
OctaveDownUnclamped(octv) == octv - 1

\* max(-2, octave_shift - 1)
OctaveDown(octv) == Max(-2, octv - 1)

\* min(2, octave_shift + 1)
OctaveUp(octv) == Min(2, octv + 1)

(***************************************************************************)
(* Bounds of the model                                                     *)
(***************************************************************************)
\* Octave, volume and instrument events in one run of the event loop.
MaxParamEvents == 3

\* The longest array given to adsr_envelope on its own.
MaxN == 6

\* The keys pressed and released, the instrument buttons clicked.
PlayedKeys == {"K_a", "K_k"}

ClickedInstruments == {"Piano-ish", "Organ"}

\* The draws np.random.uniform can return (see uniform).
Draws == {0, 150}

\* The times given to adsr_envelope on its own, in microseconds: 0, 1 and 2
\* samples.
EnvelopeTimes == {0, 23, 46}

SustainLevels == {600}

\* The notes given to synth_note on its own, as (semitone, octave): the
\* lowest C, A4 and the highest C.
Pitches == {<<0, -2>>, <<9, 0>>, <<12, 2>>}

\* Durations in microseconds; the shortest is shorter than every envelope.
Durations == {100000, 1000000, 6000000}

\* 0.05, 0.45 and 1.0
Volumes == {<<1, 0>>, <<9, -2>>, <<20, -8>>}

\* Every instrument name and one that synth_note does not know.
Names == {"Piano-ish", "Organ", "Bell", "Sine", "Triangle", "Saw", "Square",
          "Chiptune", "Theremin"}

\* The samples looked at: every duration above has them.
SampleProbes == {0, 1, 121, 352, 4409}

\* The frames of a rendered buffer the model keeps: the first frame, and one
\* inside the click and the first segments of every envelope.
AudioProbe == {0, 121}

(***************************************************************************)
(* State of main() (music.py 159-166)                                      *)
(***************************************************************************)
VARIABLES
    instrument,       \* the selected instrument name
    octave_shift,     \* -2..2
    volume,           \* the double <<q, e>>
    sound_cache,      \* RenderKey -> Sound
    active_channels,  \* pygame key -> Channel
    running,          \* the loop flag
    renders,          \* calls of synth_note since the cache was last cleared
    epoch,            \* the parity of the number of cache clears
    stale,            \* the samples of the entries the last clear discarded
                      \* whose keys the new parameters still ask for
    last,             \* the last note or parameter event and what it called
    budget,           \* parameter events left to explore
    call,             \* the arguments of a pure function applied on its own
    result            \* and what it returned

vars == <<instrument, octave_shift, volume, sound_cache, active_channels,
          running, renders, epoch, stale, last, budget, call, result>>

instruments == <<"Piano-ish", "Organ", "Bell", "Sine", "Triangle", "Saw",
                 "Square", "Chiptune">>

\* note_duration = 6.0
note_duration == 6000000

\* The Channel objects snd.play() can return.
Channels == {"ch1", "ch2"}

\* An absent value (None) is the empty sequence, a present one <<x>>.
Absent == <<>>

Some(x) == <<x>>

EmptyMap == [k \in {} |-> None]

(***************************************************************************)
(* Render cache (music.py 209-218)                                         *)
(***************************************************************************)
\* round(volume, 3), in thousandths: the residue of the double is dropped.
Round3(vol) == 50 * vol[1]

\* Keys that leave out the volume, and keys that leave out the octave.
RenderKeyNoVolume(inst, octv, semitone, vol) == <<inst, octv, semitone, 0>>

RenderKeyNoOctave(inst, octv, semitone, vol) ==
    <<inst, 0, semitone, Round3(vol)>>

RenderKey(inst, octv, semitone, vol) == <<inst, octv, semitone, Round3(vol)>>

\* A cache that never finds its entries.
CacheNeverHit(key, cache) == FALSE

\* key in sound_cache
CacheHit(key, cache) == key \in DOMAIN cache

\* A clear that discards nothing.
ClearKeeps(cache) == cache

\* sound_cache.clear()
ClearCache(cache) == EmptyMap

\* pygame.sndarray.make_sound(audio): a new Sound object, identified by id,
\* holding a copy of the samples (here its frames at AudioProbe).
make_sound(audio, id) == [id |-> id, audio |-> [i \in AudioProbe |-> audio[i]]]

\* get_sound(inst, octv, semitone) with the cache and the volume it reads;
\* id identifies a newly made Sound and draw is what np.random.uniform
\* returns if it is called.
get_sound(cache, vol, inst, octv, semitone, id, draw) ==
    LET key == RenderKey(inst, octv, semitone, vol)
    IN  IF CacheHit(key, cache)
        THEN [snd |-> cache[key], cache |-> cache, key |-> key, hit |-> TRUE,
              synth |-> Absent]
        ELSE LET freq == semitone_to_freq(semitone, octv)
                 snd  == make_sound(
                             synth_note(freq, note_duration, inst, vol, draw),
                             id)
             IN  [snd |-> snd, cache |-> (key :> snd) @@ cache, key |-> key,
                  hit |-> FALSE,
                  synth |-> Some([freq |-> freq, octv |-> octv,
                                  inst |-> inst, vol |-> vol])]

(***************************************************************************)
(* Event loop (music.py 226-284)                                           *)
(***************************************************************************)
\* The semitone of the KEYBOARD_MAP entry of a key (its keys are distinct).
Semitone(key) ==
    LET j == CHOOSE j \in 1..Len(KEYBOARD_MAP) : KEYBOARD_MAP[j][1] = key
    IN  KEYBOARD_MAP[j][2]

IsNoteKey(key) == \E j \in 1..Len(KEYBOARD_MAP) : KEYBOARD_MAP[j][1] = key

\* A note-on that does not look at active_channels.
NoteOnAlways(key, active) == IsNoteKey(key)

\* event.key == pk and pk not in active_channels
NoteOnAllowed(key, active) == IsNoteKey(key) /\ key \notin DOMAIN active

\* A note-off that forgets every held key.
RemoveEverything(active, key) == EmptyMap

\* del active_channels[event.key]
RemoveEntry(active, key) == [k \in (DOMAIN active) \ {key} |-> active[k]]

ParamKeys == {"K_LEFTBRACKET", "K_RIGHTBRACKET", "K_MINUS", "K_EQUALS"}

ControlButtons == {"oct_down", "oct_up", "vol_down", "vol_up"}

NoEvent == [ev |-> "none", key |-> None, calls |-> <<>>, snd |-> Absent,
            ch |-> None, synth |-> Absent]

Event(ev, key, calls) == [NoEvent EXCEPT !.ev = ev, !.key = key,
                                         !.calls = calls]

\* The locals of main() before the first event.
LoopInit ==
    /\ instrument = "Piano-ish"
    /\ octave_shift = 0
    /\ volume = <<9, -2>>
    /\ sound_cache = EmptyMap
    /\ active_channels = EmptyMap
    /\ running = TRUE
    /\ renders = 0
    /\ epoch = 0
    /\ stale = EmptyMap
    /\ last = NoEvent
    /\ budget = MaxParamEvents

Init == LoopInit /\ call = Absent /\ result = Absent

\* What every sound_cache.clear() of the loop does to the history variables.
Cleared ==
    /\ renders' = 0
    /\ epoch' = 1 - epoch
    /\ stale' = [k \in {k \in DOMAIN sound_cache :
                            k = RenderKey(instrument', octave_shift', k[3],
                                          volume')}
                    |-> sound_cache[k].audio]

\* pygame.QUIT, and pygame.KEYDOWN on ESCAPE (music.py 231-236). The events
\* left in the batch are still handled, so the handlers do not read running.
Quit ==
    /\ running' = FALSE
    /\ last' = Event("QUIT", None, <<>>)
    /\ UNCHANGED <<instrument, octave_shift, volume, sound_cache,
                   active_channels, renders, epoch, stale, budget,
                   call, result>>

\* pygame.KEYDOWN on an octave or volume key (music.py 238-250; the loop
\* over KEYBOARD_MAP that follows matches no entry).
KeyDownParam(key) ==
    /\ key \in ParamKeys
    /\ octave_shift' =
          IF key = "K_LEFTBRACKET" THEN OctaveDown(octave_shift)
          ELSE IF key = "K_RIGHTBRACKET" THEN OctaveUp(octave_shift)
          ELSE octave_shift
    /\ volume' =
          IF key = "K_MINUS" THEN VolumeDown(volume)
          ELSE IF key = "K_EQUALS" THEN VolumeUp(volume)
          ELSE volume
    /\ sound_cache' = ClearCache(sound_cache)
    /\ instrument' = instrument
    /\ Cleared
    /\ last' = Event("KEYDOWN", None, <<"clear">>)
    /\ UNCHANGED <<active_channels, running, call, result>>

\* pygame.KEYDOWN on a key of KEYBOARD_MAP (music.py 252-257): ch is what
\* snd.play() returns, a Channel or None.
KeyDownNote(key, draw) ==
    /\ IsNoteKey(key)
    /\ IF NoteOnAllowed(key, active_channels)
       THEN \E g \in {get_sound(sound_cache, volume, instrument,
                                 octave_shift, Semitone(key),
                                 <<epoch, renders + 1>>, draw)},
               ch \in Channels \cup {None} :
                /\ sound_cache' = g.cache
                /\ renders' = IF g.hit THEN renders ELSE renders + 1
                /\ active_channels' =
                      IF ch # None THEN (key :> ch) @@ active_channels
                      ELSE active_channels
                /\ last' = [ev |-> "KEYDOWN", key |-> key,
                            calls |-> IF g.hit
                                      THEN <<"get_sound", "play">>
                                      ELSE <<"get_sound", "synth_note", "play">>,
                            snd |-> Some(g.snd), ch |-> ch, synth |-> g.synth]
       ELSE /\ last' = Event("KEYDOWN", key, <<>>)
            /\ UNCHANGED <<sound_cache, renders, active_channels>>
    /\ UNCHANGED <<instrument, octave_shift, volume, running, epoch, stale,
                   budget, call, result>>

\* pygame.KEYUP (music.py 259-262)
KeyUp(key) ==
    /\ IF key \in DOMAIN active_channels
       THEN /\ active_channels' = RemoveEntry(active_channels, key)
            /\ last' = [Event("KEYUP", key, <<"fadeout">>)
                           EXCEPT !.ch = active_channels[key]]
       ELSE /\ active_channels' = active_channels
            /\ last' = Event("KEYUP", key, <<>>)
    /\ UNCHANGED <<instrument, octave_shift, volume, sound_cache, running,
                   renders, epoch, stale, budget, call, result>>

\* pygame.MOUSEBUTTONDOWN with button 1 on a button (music.py 264-284). The
\* rectangles of the buttons are pairwise disjoint, so a point lies in at
\* most one of them: target is an instrument name or a control button. A
\* click on no button does nothing.
MouseDown(target) ==
    /\ instrument' =
          IF \E j \in 1..Len(instruments) : instruments[j] = target
          THEN target ELSE instrument
    /\ octave_shift' =
          IF target = "oct_down" THEN OctaveDown(octave_shift)
          ELSE IF target = "oct_up" THEN OctaveUp(octave_shift)
          ELSE octave_shift
    /\ volume' =
          IF target = "vol_down" THEN VolumeDown(volume)
          ELSE IF target = "vol_up" THEN VolumeUp(volume)
          ELSE volume
    /\ sound_cache' = ClearCache(sound_cache)
    /\ Cleared
    /\ last' = Event("MOUSEBUTTONDOWN", None, <<"clear">>)
    /\ UNCHANGED <<active_channels, running, call, result>>

\* One parameter event of the explored run.
Spend == budget > 0 /\ budget' = budget - 1

Next ==
    \/ Quit
    \/ \E key \in ParamKeys : KeyDownParam(key) /\ Spend
    \/ \E key \in PlayedKeys, draw \in Draws : KeyDownNote(key, draw)
    \/ \E key \in PlayedKeys : KeyUp(key)
    \/ \E target \in ClickedInstruments \cup ControlButtons :
          MouseDown(target) /\ Spend

Spec == Init /\ [][Next]_vars

\* The event loop with parameter events unbounded and one key played, so that
\* the octave and the volume reach both ends of their ranges.
NextRange ==
    \/ \E key \in ParamKeys : KeyDownParam(key) /\ UNCHANGED budget
    \/ \E target \in ClickedInstruments \cup ControlButtons :
          MouseDown(target) /\ UNCHANGED budget
    \/ \E draw \in Draws : KeyDownNote("K_a", draw)
    \/ KeyUp("K_a")

SpecRange == Init /\ [][NextRange]_vars

(***************************************************************************)
(* adsr_envelope applied on its own                                        *)
(***************************************************************************)
InitEnvelope ==
    /\ LoopInit
    /\ call \in {Some([n |-> n, attack |-> a, decay |-> d, sustain |-> s,
                       release |-> r]) :
                    n \in 0..MaxN, a \in EnvelopeTimes, d \in EnvelopeTimes,
                    s \in SustainLevels, r \in EnvelopeTimes}
    /\ result = Absent

\* env = adsr_envelope(n, attack, decay, sustain, release): the array as a
\* sequence, or the exception.
ApplyEnvelope ==
    /\ call # Absent
    /\ result = Absent
    /\ LET c == call[1]
       IN  result' =
             IF adsr_raises(c.n, c.attack, c.decay, c.release)
             THEN Some([raises |-> TRUE, env |-> <<>>])
             ELSE Some([raises |-> FALSE,
                        env |-> [j \in 1..c.n |->
                                   adsr_envelope(c.n, c.attack, c.decay,
                                       c.sustain, c.release)[j - 1]]])
    /\ UNCHANGED <<instrument, octave_shift, volume, sound_cache,
                   active_channels, running, renders, epoch, stale, last,
                   budget, call>>

NextEnvelope == ApplyEnvelope

SpecEnvelope == InitEnvelope /\ [][NextEnvelope]_vars

(***************************************************************************)
(* synth_note applied on its own                                           *)
(***************************************************************************)
InitSynth ==
    /\ LoopInit
    /\ call \in {Some([instrument |-> name, freq |-> semitone_to_freq(p[1], p[2]),
                       duration |-> dur, vol |-> vol, draw |-> draw, i |-> i]) :
                    name \in Names, p \in Pitches, dur \in Durations,
                    vol \in Volumes, draw \in Draws,
                    i \in SampleProbes}
    /\ result = Absent

\* synth_note(freq, duration, instrument, vol): sample i of sig before
\* np.clip, of sig * 32767 after the clip and the volume, and frame i of the
\* array returned; or the exception.
Render ==
    /\ call # Absent
    /\ result = Absent
    /\ LET c == call[1]
       IN  result' =
             IF synth_raises(c.duration, c.instrument)
             THEN Some([raises |-> TRUE, sig |-> 0, scaled |-> 0,
                        frame |-> <<>>])
             ELSE Some([raises |-> FALSE,
                        sig |-> synth_sig(c.freq, c.duration, c.instrument,
                                          c.draw)[c.i],
                        scaled |-> synth_scaled(c.freq, c.duration,
                                       c.instrument, c.vol, c.draw)[c.i],
                        frame |-> synth_note(c.freq, c.duration,
                                      c.instrument, c.vol, c.draw)[c.i]])
    /\ UNCHANGED <<instrument, octave_shift, volume, sound_cache,
                   active_channels, running, renders, epoch, stale, last,
                   budget, call>>

NextSynth == Render

SpecSynth == InitSynth /\ [][NextSynth]_vars

(***************************************************************************)
(* Properties                                                              *)
(***************************************************************************)
\* The key get_sound builds for the note key of the last event.
LastKey == RenderKey(instrument, octave_shift, Semitone(last.key), volume)

\* C1: between two clears a get_sound that finds its key in the cache calls
\* no synth_note (the count of renders stays), leaves the cache alone and
\* returns the stored Sound; one that does not find it renders once and
\* stores what it returns. Every entry was rendered exactly once.
C1_HitRendersNothing ==
    [][/\ renders = Cardinality(DOMAIN sound_cache)
       /\ \A pk \in PlayedKeys :
            LET key == RenderKey(instrument, octave_shift, Semitone(pk),
                                 volume)
            IN  (last'.key = pk /\ last'.snd # Absent) =>
                  IF key \in DOMAIN sound_cache
                  THEN /\ renders' = renders
                       /\ sound_cache' = sound_cache
                       /\ last'.snd = Some(sound_cache[key])
                       /\ last'.calls = <<"get_sound", "play">>
                  ELSE /\ renders' = renders + 1
                       /\ last'.calls = <<"get_sound", "synth_note", "play">>
                       /\ key \in DOMAIN sound_cache'
                       /\ last'.snd = Some(sound_cache'[key])
                       /\ \A k \in DOMAIN sound_cache :
                            sound_cache'[k] = sound_cache[k]]_vars

\* A note-on was served from the cache.
C1_Witness ==
    /\ last.calls = <<"get_sound", "play">>
    /\ renders = 1
    /\ last.snd = Some(sound_cache[LastKey])

\* C2: a clear leaves the cache empty, so the next get_sound renders again,
\* with the current instrument, octave and volume; every Sound in the cache,
\* and every Sound a get_sound returned, was made after the last clear.
C2_NoStaleSound ==
    /\ last.calls = <<"clear">> => sound_cache = EmptyMap /\ renders = 0
    /\ \A k \in DOMAIN sound_cache : sound_cache[k].id[1] = epoch
    /\ last.snd # Absent => last.snd[1].id[1] = epoch
    /\ last.synth # Absent =>
          /\ last.synth[1].inst = instrument
          /\ last.synth[1].octv = octave_shift
          /\ last.synth[1].vol = volume
          /\ last.synth[1].freq =
                semitone_to_freq(Semitone(last.key), octave_shift)

\* A key that was in the cache before a clear was rendered again after it.
C2_Witness ==
    /\ epoch = 1
    /\ last.synth # Absent
    /\ LastKey \in DOMAIN stale

\* C3 (as the code has it): a render after a clear that left the key as it
\* was gives the samples of the render before the clear for every instrument
\* but Piano-ish, whose noise is drawn again; between two clears every
\* request for a key, Piano-ish too, resolves to the one Sound in the cache.
C3_SameKeySameBuffer ==
    /\ \A k \in (DOMAIN sound_cache) \cap (DOMAIN stale) :
          k[1] # "Piano-ish" => sound_cache[k].audio = stale[k]
    /\ last.snd # Absent => last.snd[1] = sound_cache[LastKey]

\* An Organ note was rendered before and after a clear that kept its key.
C3_Witness ==
    \E k \in (DOMAIN sound_cache) \cap (DOMAIN stale) :
        /\ k[1] = "Organ"
        /\ sound_cache[k].audio = stale[k]
        /\ sound_cache[k].audio[121] # <<0, 0>>

\* C3 as stated: for every instrument, Piano-ish included.
C3_Original ==
    \A k \in (DOMAIN sound_cache) \cap (DOMAIN stale) :
        sound_cache[k].audio = stale[k]

\* C4: a KEYDOWN on a key that has an entry in active_channels calls nothing
\* and changes neither the entry, the cache nor the count of renders.
C4_HeldKeyIgnored ==
    [][\A pk \in DOMAIN active_channels :
          (last'.ev = "KEYDOWN" /\ last'.key = pk) =>
              /\ last'.calls = <<>>
              /\ active_channels' = active_channels
              /\ sound_cache' = sound_cache
              /\ renders' = renders]_vars

\* A held key was pressed again.
C4_Witness ==
    /\ last = Event("KEYDOWN", last.key, <<>>)
    /\ last.key \in DOMAIN active_channels

\* C6: octave_shift is within -2..2 and volume within [0.05, 1.0], and so
\* are the octave and the volume of every call of semitone_to_freq and
\* synth_note.
C6_ParametersInRange ==
    /\ octave_shift \in -2..2
    /\ ~Less(volume, <<1, 0>>)
    /\ ~Less(<<20, -8>>, volume)
    /\ last.synth # Absent =>
          /\ last.synth[1].octv \in -2..2
          /\ ~Less(last.synth[1].vol, <<1, 0>>)
          /\ ~Less(<<20, -8>>, last.synth[1].vol)

\* A note was rendered with the octave and the volume at their lower ends,
\* after steps that were clamped.
C6_Witness ==
    /\ last.synth # Absent
    /\ last.synth[1].octv = -2
    /\ last.synth[1].vol = <<1, 0>>

\* C9: every key of sound_cache carries the current instrument, octave and
\* rounded volume, and the cache holds at most one entry per KEYBOARD_MAP
\* semitone.
C9_KeysAreCurrent ==
    /\ \A k \in DOMAIN sound_cache :
          /\ k[1] = instrument
          /\ k[2] = octave_shift
          /\ k[4] = Round3(volume)
    /\ Cardinality(DOMAIN sound_cache) <= Len(KEYBOARD_MAP)

\* Two notes are cached after the octave and the volume were changed.
C9_Witness ==
    /\ Cardinality(DOMAIN sound_cache) = 2
    /\ octave_shift # 0
    /\ volume # <<9, -2>>

\* C10: active_channels changes only on a KEYDOWN or KEYUP of a note key; a
\* KEYDOWN adds the entry of its key alone, and only a Channel; a KEYUP of a
\* held key fades its Channel out and removes its entry alone, a KEYUP of
\* any other key changes nothing; an octave, volume or instrument event
\* leaves active_channels as it was.
C10_OnlyNoteEventsChangeNotes ==
    [][/\ active_channels' # active_channels =>
             last'.ev \in {"KEYDOWN", "KEYUP"} /\ IsNoteKey(last'.key)
       /\ last'.calls = <<"clear">> => active_channels' = active_channels
       /\ (last'.ev = "KEYDOWN" /\ last'.snd # Absent) =>
             active_channels' =
                IF last'.ch \in Channels
                THEN (last'.key :> last'.ch) @@ active_channels
                ELSE active_channels
       /\ last'.ev = "KEYUP" =>
             IF last'.key \in DOMAIN active_channels
             THEN /\ last'.calls = <<"fadeout">>
                  /\ last'.ch = active_channels[last'.key]
                  /\ DOMAIN active_channels' =
                        (DOMAIN active_channels) \ {last'.key}
                  /\ \A k \in DOMAIN active_channels' :
                        active_channels'[k] = active_channels[k]
             ELSE /\ last'.calls = <<>>
                  /\ active_channels' = active_channels]_vars

\* Two keys are held across a parameter event.
C10_Witness ==
    /\ last.calls = <<"clear">>
    /\ Cardinality(DOMAIN active_channels) = 2

\* C5 as stated: adsr_envelope never raises and returns n values.
C5_NeverFails ==
    result # Absent =>
        /\ ~result[1].raises
        /\ Len(result[1].env) = call[1].n

\* C7: a sample of the array synth_note returns is sig * 32767 truncated,
\* without int16 wrapping, lies within -32767..32767, and is the same in
\* both channels.
C7_SamplesInRange ==
    (result # Absent /\ ~result[1].raises) =>
        /\ Abs(result[1].scaled) <= 32767 * 20 * One
        /\ result[1].frame[1] = Trunc(result[1].scaled, 20 * One)
        /\ result[1].frame[1] \in -32767..32767
        /\ result[1].frame[2] = result[1].frame[1]

\* A sample above 1.0 before the clip was returned as 32767 at volume 1.0.
C7_Witness ==
    /\ result # Absent
    /\ ~result[1].raises
    /\ result[1].sig > One
    /\ call[1].vol = <<20, -8>>
    /\ result[1].frame = <<32767, 32767>>

\* C8 (as the code has it): the envelope multiplies the partials, and the
\* click is added after it, so the first Piano-ish sample before the clip,
\* where the envelope is 0, is the first noise value.
C8_ClickAfterEnvelope ==
    (/\ result # Absent
     /\ ~result[1].raises
     /\ call[1].instrument = "Piano-ish"
     /\ call[1].i = 0) =>
        result[1].sig = uniform(call[1].draw, 0)

\* A first Piano-ish sample that is not 0 before the clip.
C8_Witness ==
    /\ result # Absent
    /\ ~result[1].raises
    /\ call[1].instrument = "Piano-ish"
    /\ call[1].i = 0
    /\ result[1].sig = -150

\* C8 as stated: the first Piano-ish sample is 0 before the clip.
C8_Original ==
    (/\ result # Absent
     /\ ~result[1].raises
     /\ call[1].instrument = "Piano-ish"
     /\ call[1].i = 0) =>
        result[1].sig = 0

=============================================================================
